---- MODULE Spec2Model ----
(***************************************************************************)
(* Model of src/dreamofred.py: a Streamlit script that loads nodes.csv and *)
(* edges.csv through a memoized loader, builds styled graph nodes and      *)
(* edges under the sidebar configuration, and reports network statistics.  *)
(*                                                                         *)
(* One script run (Streamlit reruns the whole script on every widget       *)
(* interaction) is one action.  The two files, the st.cache_data memo and  *)
(* the widget values are the state that survives between runs; the other   *)
(* variables hold what the last run built.                                 *)
(*                                                                         *)
(* Numbers: node sizes are integers (integral weights only).  Edge widths  *)
(* and the edge multiplier are kept in tenths (width 45 is 4.5).           *)
(* The two Chinese sentinel strings of the source are written in ASCII.    *)
(***************************************************************************)
EXTENDS Integers, Sequences, FiniteSets, TLC

\* ------------------------------------------------------------------ bounds
MaxNodeRows == 2
MaxEdgeRows == 2
MaxCacheRows == 1

\* --------------------------------------------------------- program constants
\* '所有模块' (line 91) and '默认' (line 127)
ALL_MODULES == "<all modules>"
DEFAULT_MODULE == "<default>"
DEFAULT_NODE_COLOR == "#1F77B4"
DEFAULT_EDGE_COLOR == "#666666"
color_palette ==
  << "#FF6B6B", "#4ECDC4", "#45B7D1", "#96CEB4", "#F7DC6F",
     "#BB8FCE", "#85C1E9", "#F8C471", "#82E0AA", "#F1948A" >>
BASE_EDGE_WIDTH == 20
MIN_EDGE_WIDTH == 10
MAX_EDGE_WIDTH == 50

\* ------------------------------------------------------------- table cells
\* A cell of a DataFrame as pandas.read_csv types it: an int64, a float64
\* (integral values only here), a str, or NaN.  None is what row.get()
\* returns for a column the table does not have.
IntCell(n) == [k |-> "int", n |-> n, s |-> ""]
FloatCell(n) == [k |-> "float", n |-> n, s |-> ""]
StrCell(s) == [k |-> "str", n |-> 0, s |-> s]
NaN == [k |-> "nan", n |-> 0, s |-> ""]
None == [k |-> "none", n |-> 0, s |-> ""]

Digits == << "0", "1", "2", "3", "4", "5", "6", "7", "8", "9" >>

RECURSIVE IntStr(_)
IntStr(n) ==
  IF n < 0 THEN "-" \o IntStr(-n)
  ELSE IF n < 10 THEN Digits[n + 1]
  ELSE IntStr(n \div 10) \o Digits[(n % 10) + 1]

\* Python str() of a cell
PyStr(v) ==
  CASE v.k = "int" -> IntStr(v.n)
    [] v.k = "float" -> IntStr(v.n) \o ".0"
    [] v.k = "str" -> v.s
    [] v.k = "nan" -> "nan"
    [] OTHER -> "None"

\* pandas.notna
notna(v) == v.k \notin {"nan", "none"}

\* Python float() of a present cell: ok = FALSE is the ValueError.  The
\* strings it accepts here are the decimal integer literals in ParseRange.
ParseRange == (-9) .. 9
NumericStrs == {IntStr(n) : n \in ParseRange}
ParseTable == [s \in NumericStrs |-> CHOOSE n \in ParseRange : IntStr(n) = s]
IsNumericStr(s) == s \in NumericStrs
PyFloat(v) ==
  CASE v.k \in {"int", "float"} -> [ok |-> TRUE, n |-> v.n]
    [] v.k = "str" /\ IsNumericStr(v.s) -> [ok |-> TRUE, n |-> ParseTable[v.s]]
    [] OTHER -> [ok |-> FALSE, n |-> 0]

\* ------------------------------------------------------------------ tables
\* A DataFrame: its column names and its rows (records over all four/three
\* field names; a field of an absent column holds None).
ColumnCells(df, c) == {df.rows[i][c] : i \in DOMAIN df.rows}

\* dtype read_csv gives a column
IsIntCol(vs) == \A v \in vs : v.k = "int"
IsFloatCol(vs) == \A v \in vs : v.k \in {"float", "nan"}
IsObjectCol(vs) ==
  /\ \A v \in vs : v.k \in {"str", "nan"}
  /\ \E v \in vs : v.k = "str" /\ ~IsNumericStr(v.s)
Dtype(vs) ==
  IF IsIntCol(vs) THEN "int64" ELSE IF IsFloatCol(vs) THEN "float64" ELSE "object"
\* the columns a parsed CSV can have
ColumnOK(vs) == IsIntCol(vs) \/ IsFloatCol(vs) \/ IsObjectCol(vs)
TableOK(df) == \A c \in df.columns : ColumnOK(ColumnCells(df, c))

\* DataFrame.iterrows(): each row is a Series of one dtype, so in a table
\* whose columns are all numeric and one of them float64 the int64 cells
\* come out as floats.
Upcast(df) ==
  LET dts == {Dtype(ColumnCells(df, c)) : c \in df.columns}
  IN  "object" \notin dts /\ "float64" \in dts
Iterrows(df) ==
  IF Upcast(df)
  THEN [i \in DOMAIN df.rows |->
         [c \in DOMAIN df.rows[i] |->
           IF df.rows[i][c].k = "int" THEN FloatCell(df.rows[i][c].n) ELSE df.rows[i][c]]]
  ELSE df.rows

\* Series.unique(): distinct values in order of first occurrence
RECURSIVE unique(_)
unique(cells) ==
  IF cells = << >> THEN << >>
  ELSE LET init == unique(SubSeq(cells, 1, Len(cells) - 1))
           last == cells[Len(cells)]
       IN  IF \E i \in DOMAIN init : init[i] = last THEN init ELSE Append(init, last)

Column(df, c) == [i \in DOMAIN df.rows |-> df.rows[i][c]]

\* ----------------------------------------------------------------- loader
\* A file on disk: missing, unparseable, or a CSV holding a table.
EmptyDf == [columns |-> {}, rows |-> << >>]
MissingFile == [state |-> "missing", df |-> EmptyDf]
MalformedFile == [state |-> "malformed", df |-> EmptyDf]
CsvFile(df) == [state |-> "csv", df |-> df]

\* The body of load_data (lines 20-45).  ok = FALSE is (None, None).
NoData == [ok |-> FALSE, nodes_df |-> EmptyDf, edges_df |-> EmptyDf]
load_data(nf, ef) ==
  IF nf.state = "missing" THEN NoData
  ELSE IF ef.state = "missing" THEN NoData
  ELSE IF nf.state = "malformed" \/ ef.state = "malformed" THEN NoData
  ELSE [ok |-> TRUE, nodes_df |-> nf.df, edges_df |-> ef.df]

\* @st.cache_data on a function without arguments: one memo entry, filled by
\* the first call and returned by every later one.
EmptyCache == [filled |-> FALSE, value |-> NoData]
cached_load_data(memo, nf, ef) == IF memo.filled THEN memo.value ELSE load_data(nf, ef)

\* ------------------------------------------------------------ module colors
\* s == v for a Python str s and a cell v
StrEq(s, v) == v.k = "str" /\ v.s = s

\* the options of the module selectbox (lines 90-95)
all_modules(df) ==
  IF "module" \in df.columns
  THEN <<StrCell(ALL_MODULES)>> \o unique(Column(df, "module"))
  ELSE <<StrCell(ALL_MODULES)>>

\* module_colors (lines 102-110): a dict keyed by the raw cells of the
\* module column, kept as the sequence of its items in insertion order.
ModuleColors(df) ==
  IF "module" \in df.columns
  THEN LET unique_modules == unique(Column(df, "module"))
       IN  [i \in DOMAIN unique_modules |->
             [key |-> unique_modules[i],
              color |-> color_palette[((i - 1) % Len(color_palette)) + 1]]]
  ELSE << >>

\* module_colors.get(s, default) for a Python str s
ColorGet(mc, s, default) ==
  IF \E i \in DOMAIN mc : StrEq(s, mc[i].key)
  THEN mc[CHOOSE i \in DOMAIN mc : StrEq(s, mc[i].key)].color
  ELSE default

\* -------------------------------------------------------------- node loop
\* line 127
NodeModule(df, row) ==
  IF "module" \in df.columns /\ notna(row.module) THEN PyStr(row.module) ELSE DEFAULT_MODULE

\* line 130: the row is skipped
FilteredOut(df, row, sel) ==
  /\ "module" \in df.columns
  /\ ~StrEq(ALL_MODULES, sel)
  /\ ~StrEq(NodeModule(df, row), sel)

\* a slip in line 137: the multiplier is left out
NodeSize_NoMultiplier(df, row, base, use_weight, multiplier) ==
  IF use_weight /\ "weight" \in df.columns /\ notna(row.weight)
  THEN LET weight == PyFloat(row.weight)
       IN  IF weight.ok THEN base + weight.n ELSE base
  ELSE base

\* lines 134-141
NodeSize(df, row, base, use_weight, multiplier) ==
  IF use_weight /\ "weight" \in df.columns /\ notna(row.weight)
  THEN LET weight == PyFloat(row.weight)
       IN  IF weight.ok THEN base + (weight.n * multiplier) ELSE base
  ELSE base

\* lines 144-147
NodeColor(df, row, mc) ==
  IF "module" \in df.columns
  THEN ColorGet(mc, NodeModule(df, row), DEFAULT_NODE_COLOR)
  ELSE DEFAULT_NODE_COLOR

\* line 124
NodeLabel(row) == IF notna(row.label) THEN PyStr(row.label) ELSE PyStr(row.id)

\* The node loop (lines 119-164) after its first i rows: what the surviving
\* rows emitted, in order.  Field row of a node is the index of the table
\* row it was built from (bookkeeping, not in the source).
RECURSIVE NodeLoop(_, _, _, _, _, _, _, _)
NodeLoop(df, rows, mc, sel, base, use_weight, multiplier, i) ==
  IF i = 0 THEN << >>
  ELSE LET acc == NodeLoop(df, rows, mc, sel, base, use_weight, multiplier, i - 1)
           row == rows[i]
           node_size == NodeSize(df, row, base, use_weight, multiplier)
           node == [id |-> PyStr(row.id), label |-> NodeLabel(row), size |-> node_size,
                    color |-> NodeColor(df, row, mc), row |-> i]
           meta == [module |-> NodeModule(df, row), label |-> NodeLabel(row),
                    size |-> node_size]
       IN  IF FilteredOut(df, row, sel) THEN acc ELSE Append(acc, [node |-> node, meta |-> meta])

\* a slip in line 158: a row whose id was seen before appends no node
RECURSIVE Nodes_FirstOfEachId(_)
Nodes_FirstOfEachId(emitted) ==
  IF emitted = << >> THEN << >>
  ELSE LET init == Nodes_FirstOfEachId(SubSeq(emitted, 1, Len(emitted) - 1))
           last == emitted[Len(emitted)].node
       IN  IF \E i \in DOMAIN init : init[i].id = last.id THEN init ELSE Append(init, last)

\* nodes.append(node), line 158
Nodes(emitted) == [i \in DOMAIN emitted |-> emitted[i].node]
\* node_ids.add(node_id), line 159
NodeIds(emitted) == {emitted[i].node.id : i \in DOMAIN emitted}
\* node_dict[node_id] = {...}, lines 160-164: a later row with the same id
\* overwrites the entry
NodeDict(emitted) ==
  [id \in NodeIds(emitted) |->
    LET last == CHOOSE i \in DOMAIN emitted :
                  /\ emitted[i].node.id = id
                  /\ \A j \in DOMAIN emitted : emitted[j].node.id = id => j <= i
    IN  emitted[last].meta]

\* -------------------------------------------------------------- edge loop
\* a slip in line 176: "and" for "or", so one known endpoint is enough
EdgeExists_Either(source, target, ids) == source \in ids \/ target \in ids

\* lines 173-177: the row is kept
EdgeExists(source, target, ids) == source \in ids /\ target \in ids

Min(a, b) == IF a < b THEN a ELSE b
Max(a, b) == IF a > b THEN a ELSE b

\* a slip in line 183: the max(1, ...) is left out
EdgeWidth_NoFloor(df, row, use_weight, multiplier) ==
  IF use_weight /\ "weight" \in df.columns /\ notna(row.weight)
  THEN LET weight == PyFloat(row.weight)
       IN  IF weight.ok
           THEN IF weight.n * multiplier > 50 THEN 50 ELSE weight.n * multiplier
           ELSE 20
  ELSE 20

\* lines 180-187, in tenths
EdgeWidth(df, row, use_weight, multiplier) ==
  IF use_weight /\ "weight" \in df.columns /\ notna(row.weight)
  THEN LET weight == PyFloat(row.weight)
       IN  IF weight.ok
           THEN Max(MIN_EDGE_WIDTH, Min(MAX_EDGE_WIDTH, weight.n * multiplier))
           ELSE BASE_EDGE_WIDTH
  ELSE BASE_EDGE_WIDTH

\* lines 190-194
EdgeColor(ndf, source, nd, mc) ==
  IF "module" \in ndf.columns
  THEN LET source_module ==
             IF source \in DOMAIN nd THEN nd[source].module ELSE DEFAULT_MODULE
       IN  ColorGet(mc, source_module, DEFAULT_EDGE_COLOR)
  ELSE DEFAULT_EDGE_COLOR

\* The edge loop (lines 167-203) after its first i rows.
RECURSIVE EdgeLoop(_, _, _, _, _, _, _, _, _)
EdgeLoop(ndf, df, rows, ids, nd, mc, use_weight, multiplier, i) ==
  IF i = 0 THEN << >>
  ELSE LET acc == EdgeLoop(ndf, df, rows, ids, nd, mc, use_weight, multiplier, i - 1)
           row == rows[i]
           source == PyStr(row.source)
           target == PyStr(row.target)
           edge == [source |-> source, target |-> target,
                    color |-> EdgeColor(ndf, source, nd, mc),
                    width |-> EdgeWidth(df, row, use_weight, multiplier), row |-> i]
       IN  IF EdgeExists(source, target, ids) THEN Append(acc, edge) ELSE acc

\* -------------------------------------------------------------- statistics
\* A metric: a ratio num/den, the "N/A" text, or the ZeroDivisionError a
\* division by zero raises.
Ratio(num, den) ==
  IF den = 0 THEN [kind |-> "ZeroDivisionError", num |-> 0, den |-> 0]
  ELSE [kind |-> "value", num |-> num, den |-> den]
NA == [kind |-> "N/A", num |-> 0, den |-> 0]
NoStats == [shown |-> FALSE, nodeCount |-> 0, edgeCount |-> 0, density |-> NA,
            averageDegree |-> NA]

\* a slip in line 289: > 0 for > 1
DensityDefined_NonEmpty(n) == n > 0

\* line 289
DensityDefined(n) == n > 1

\* lines 279-297
Statistics(ns, es) ==
  IF ns # << >> /\ es # << >>
  THEN [shown |-> TRUE, nodeCount |-> Len(ns), edgeCount |-> Len(es),
        density |-> IF DensityDefined(Len(ns))
                    THEN Ratio(2 * Len(es), Len(ns) * (Len(ns) - 1))
                    ELSE NA,
        averageDegree |-> Ratio(2 * Len(es), Len(ns))]
  ELSE NoStats

\* ------------------------------------------------------------------- state
VARIABLES
  nodesFile, edgesFile,      \* nodes.csv and edges.csv on disk
  cache,                     \* the st.cache_data memo of load_data
  base_node_size, use_weight_size, weight_multiplier,
  use_weight_edge, edge_weight_multiplier, selected_module,   \* widget values
  ran,                       \* the script has run at least once
  rendered,                  \* the script has run since the files last changed
  loaded,                    \* the last run got both tables (line 50)
  module_colors, nodes, node_ids, node_dict, edges, stats

files == <<nodesFile, edgesFile>>
widgets == <<base_node_size, use_weight_size, weight_multiplier,
             use_weight_edge, edge_weight_multiplier, selected_module>>
built == <<module_colors, nodes, node_ids, node_dict, edges, stats>>
vars == <<files, cache, widgets, ran, rendered, loaded, built>>

\* the tables the last run worked on (lines 48): what the memo returned
nodes_df == cache.value.nodes_df
edges_df == cache.value.edges_df

\* widget defaults (lines 72-84) and the values the sliders are moved to
DEFAULT_BASE_NODE_SIZE == 20
DEFAULT_WEIGHT_MULTIPLIER == 3
DEFAULT_EDGE_WEIGHT_MULTIPLIER == 15
BaseNodeSizes == {10, 20, 30}
WeightMultipliers == {1, 3, 10}
EdgeWeightMultipliers == {5, 15, 50}

\* One run of the script (lines 47-300) with the given widget values.
Script(base, uws, wm, uwe, ewm, sel) ==
  \E data \in {cached_load_data(cache, nodesFile, edgesFile)} :
  \E selected \in {IF "module" \in data.nodes_df.columns THEN sel ELSE StrCell(ALL_MODULES)} :
  \E mc \in {ModuleColors(data.nodes_df)} :
  \E nrows \in {Iterrows(data.nodes_df)} :
  \E erows \in {Iterrows(data.edges_df)} :
  \E emitted \in {NodeLoop(data.nodes_df, nrows, mc, selected, base, uws, wm, Len(nrows))} :
  \E ids \in {NodeIds(emitted)} :
  \E nd \in {NodeDict(emitted)} :
  \E es \in {EdgeLoop(data.nodes_df, data.edges_df, erows, ids, nd, mc,
                      uwe, ewm, Len(erows))} :
      /\ cache' = [filled |-> TRUE, value |-> data]
      /\ UNCHANGED files
      /\ ran' = TRUE
      /\ rendered' = TRUE
      /\ loaded' = data.ok
      /\ IF data.ok
         THEN /\ base_node_size' = base
              /\ use_weight_size' = uws
              /\ weight_multiplier' = wm
              /\ use_weight_edge' = uwe
              /\ edge_weight_multiplier' = ewm
              /\ selected_module' = selected
              /\ module_colors' = mc
              /\ nodes' = Nodes(emitted)
              /\ node_ids' = ids
              /\ node_dict' = nd
              /\ edges' = es
              /\ stats' = Statistics(Nodes(emitted), es)
         ELSE /\ UNCHANGED widgets
              /\ module_colors' = << >>
              /\ nodes' = << >>
              /\ node_ids' = {}
              /\ node_dict' = << >>
              /\ edges' = << >>
              /\ stats' = NoStats

\* The page is (re)loaded or rerun without touching a widget.
Rerun ==
  Script(base_node_size, use_weight_size, weight_multiplier,
         use_weight_edge, edge_weight_multiplier, selected_module)

\* The widgets exist once a run has got past line 50.
WidgetsShown == ran /\ loaded

SetBaseNodeSize ==
  /\ WidgetsShown
  /\ \E v \in BaseNodeSizes \ {base_node_size} :
       Script(v, use_weight_size, weight_multiplier,
              use_weight_edge, edge_weight_multiplier, selected_module)

SetUseWeightSize ==
  /\ WidgetsShown
  /\ Script(base_node_size, ~use_weight_size, weight_multiplier,
            use_weight_edge, edge_weight_multiplier, selected_module)

SetWeightMultiplier ==
  /\ WidgetsShown
  /\ \E v \in WeightMultipliers \ {weight_multiplier} :
       Script(base_node_size, use_weight_size, v,
              use_weight_edge, edge_weight_multiplier, selected_module)

SetUseWeightEdge ==
  /\ WidgetsShown
  /\ Script(base_node_size, use_weight_size, weight_multiplier,
            ~use_weight_edge, edge_weight_multiplier, selected_module)

SetEdgeWeightMultiplier ==
  /\ WidgetsShown
  /\ \E v \in EdgeWeightMultipliers \ {edge_weight_multiplier} :
       Script(base_node_size, use_weight_size, weight_multiplier,
              use_weight_edge, v, selected_module)

\* the module selectbox (line 92), shown only when there is a module column
SelectModule ==
  /\ WidgetsShown
  /\ "module" \in nodes_df.columns
  /\ \E options \in {all_modules(nodes_df)} :
     \E i \in DOMAIN options :
       /\ options[i] # selected_module
       /\ Script(base_node_size, use_weight_size, weight_multiplier,
                 use_weight_edge, edge_weight_multiplier, options[i])

\* The files change on disk between runs.
WriteNodesFile(contents) ==
  /\ nodesFile' \in contents \ {nodesFile}
  /\ rendered' = FALSE
  /\ UNCHANGED <<edgesFile, cache, widgets, ran, loaded, built>>

WriteEdgesFile(contents) ==
  /\ edgesFile' \in contents \ {edgesFile}
  /\ rendered' = FALSE
  /\ UNCHANGED <<nodesFile, cache, widgets, ran, loaded, built>>

\* ------------------------------------------------------------------ inputs
SeqsUpTo(S, n) == UNION {[1 .. k -> S] : k \in 0 .. n}

NodeTables(cols, ids, mods, ws, n) ==
  {df \in {[columns |-> cols, rows |-> r] :
            r \in SeqsUpTo([id : ids, label : {StrCell("L")}, module : mods, weight : ws], n)} :
     TableOK(df)}

EdgeTables(cols, ends, ws, n) ==
  {df \in {[columns |-> cols, rows |-> r] :
            r \in SeqsUpTo([source : ends, target : ends, weight : ws], n)} :
     TableOK(df)}

Csv(tables) == {CsvFile(df) : df \in tables}

WeightCells ==
  {IntCell(-2), IntCell(0), IntCell(3), IntCell(1000),
   FloatCell(-2), FloatCell(3), NaN, StrCell("abc"), StrCell("3")}

\* graph structure: ids, modules, endpoints
GraphNodeTables ==
  NodeTables({"id", "label", "module"}, {IntCell(1), IntCell(2)},
             {StrCell("A"), StrCell("B"), NaN, IntCell(1)}, {None}, MaxNodeRows)
  \cup NodeTables({"id", "label"}, {IntCell(1), IntCell(2)}, {None}, {None}, MaxNodeRows)
GraphEdgeTables ==
  EdgeTables({"source", "target"},
             {IntCell(1), IntCell(2), StrCell("1"), StrCell("x")}, {None}, MaxEdgeRows)

\* node sizing: weights
SizeNodeTables ==
  NodeTables({"id", "label", "weight"}, {IntCell(1), IntCell(2)}, {None},
             WeightCells, MaxNodeRows)
  \cup NodeTables({"id", "label"}, {IntCell(1), IntCell(2)}, {None}, {None}, MaxNodeRows)
SizeEdgeTables == EdgeTables({"source", "target", "weight"}, {IntCell(1)}, {IntCell(3)}, 0)

\* edge widths: weights
WidthNodeTables ==
  NodeTables({"id", "label"}, {IntCell(1), StrCell("a")}, {None}, {None}, MaxNodeRows)
WidthEdgeTables ==
  EdgeTables({"source", "target", "weight"}, {IntCell(1), StrCell("a")},
             WeightCells, MaxEdgeRows)
  \cup EdgeTables({"source", "target"}, {IntCell(1), StrCell("a")}, {None}, MaxEdgeRows)

\* the memo: a few file contents
CacheNodeFiles ==
  {MissingFile, MalformedFile}
  \cup Csv(NodeTables({"id", "label"}, {IntCell(1), IntCell(2)}, {None}, {None}, MaxCacheRows))
CacheEdgeFiles ==
  {MissingFile, MalformedFile}
  \cup Csv(EdgeTables({"source", "target"}, {IntCell(1), IntCell(2)}, {None}, MaxCacheRows))

\* ---------------------------------------------------------- specifications
\* Before the first run: nothing memoized, the widgets at their defaults.
InitSession ==
  /\ cache = EmptyCache
  /\ base_node_size = DEFAULT_BASE_NODE_SIZE
  /\ use_weight_size = FALSE
  /\ weight_multiplier = DEFAULT_WEIGHT_MULTIPLIER
  /\ use_weight_edge = TRUE
  /\ edge_weight_multiplier = DEFAULT_EDGE_WEIGHT_MULTIPLIER
  /\ selected_module = StrCell(ALL_MODULES)
  /\ ran = FALSE
  /\ rendered = FALSE
  /\ loaded = FALSE
  /\ module_colors = << >>
  /\ nodes = << >>
  /\ node_ids = {}
  /\ node_dict = << >>
  /\ edges = << >>
  /\ stats = NoStats

Init ==
  /\ nodesFile \in Csv(GraphNodeTables)
  /\ edgesFile \in Csv(GraphEdgeTables)
  /\ InitSession
Next == Rerun \/ SelectModule
Spec == Init /\ [][Next]_vars

InitNodeSize ==
  /\ nodesFile \in Csv(SizeNodeTables)
  /\ edgesFile \in Csv(SizeEdgeTables)
  /\ InitSession
NextNodeSize == Rerun \/ SetBaseNodeSize \/ SetUseWeightSize \/ SetWeightMultiplier
SpecNodeSize == InitNodeSize /\ [][NextNodeSize]_vars

InitEdgeWidth ==
  /\ nodesFile \in Csv(WidthNodeTables)
  /\ edgesFile \in Csv(WidthEdgeTables)
  /\ InitSession
NextEdgeWidth == Rerun \/ SetUseWeightEdge \/ SetEdgeWeightMultiplier
SpecEdgeWidth == InitEdgeWidth /\ [][NextEdgeWidth]_vars

InitCache ==
  /\ nodesFile \in CacheNodeFiles
  /\ edgesFile \in CacheEdgeFiles
  /\ InitSession
NodesFileChanges == WriteNodesFile(CacheNodeFiles)
EdgesFileChanges == WriteEdgesFile(CacheEdgeFiles)
NextCache == Rerun \/ NodesFileChanges \/ EdgesFileChanges
SpecCache == InitCache /\ [][NextCache]_vars

\* ------------------------------------------------------------------ claims
Built == ran /\ loaded
NodeRows == Iterrows(nodes_df)
EdgeRows == Iterrows(edges_df)
\* the ids of the nodes that survived the module filter
BuiltIds == {nodes[j].id : j \in DOMAIN nodes}
\* the table rows that yielded a node / an edge
BuiltNodeRows == {nodes[j].row : j \in DOMAIN nodes}
BuiltEdgeRows == {edges[j].row : j \in DOMAIN edges}
HasModuleColumn == "module" \in nodes_df.columns
Survives(rows, i) == ~FilteredOut(nodes_df, rows[i], selected_module)

\* C1: an edge row yields an edge (exactly one, carrying the coerced
\* endpoints) if and only if its string-coerced source and its
\* string-coerced target are both ids of nodes that survived the filter.
C1_EdgeIffBothEndpointsBuilt ==
  Built =>
    \A rows \in {EdgeRows} : \A ids \in {BuiltIds} :
      /\ \A i \in DOMAIN rows :
           i \in BuiltEdgeRows <=>
             (PyStr(rows[i].source) \in ids /\ PyStr(rows[i].target) \in ids)
      /\ \A j \in DOMAIN edges :
           /\ edges[j].row \in DOMAIN rows
           /\ edges[j].source = PyStr(rows[edges[j].row].source)
           /\ edges[j].target = PyStr(rows[edges[j].row].target)
           /\ \A k \in DOMAIN edges : edges[k].row = edges[j].row => k = j

\* C1 witness: a module is selected, and an edge row is dropped whose source
\* survives while its target is a node of the table that was filtered out;
\* another row of the same table yields an edge.
C1_Witness ==
  /\ Built
  /\ selected_module # StrCell(ALL_MODULES)
  /\ edges # << >>
  /\ \E i \in DOMAIN EdgeRows :
       /\ i \notin BuiltEdgeRows
       /\ PyStr(EdgeRows[i].source) \in BuiltIds
       /\ PyStr(EdgeRows[i].target) \notin BuiltIds
       /\ \E r \in DOMAIN NodeRows : PyStr(NodeRows[r].id) = PyStr(EdgeRows[i].target)

\* C2: with a module column and a module M of the selectbox selected, the
\* built nodes are exactly the rows whose module value is M; with the
\* 'all modules' entry selected every row yields a node.
C2_FilterKeepsExactlyModule ==
  (Built /\ HasModuleColumn) =>
    IF selected_module = StrCell(ALL_MODULES)
    THEN BuiltNodeRows = DOMAIN nodes_df.rows
    ELSE BuiltNodeRows = {i \in DOMAIN nodes_df.rows : nodes_df.rows[i].module = selected_module}

RatioIs(m, num, den) == m.kind = "value" /\ m.den # 0 /\ m.num * den = num * m.den

\* C3 as stated: statistics are reported for every final node and edge list,
\* with density "N/A" when nodeCount <= 1 and averageDegree "N/A" when
\* nodeCount = 0 (so 2 nodes and no edge report edgeCount 0, density 0).
C3_StatsAlwaysReported ==
  Built =>
    /\ stats.shown
    /\ stats.nodeCount = Len(nodes)
    /\ stats.edgeCount = Len(edges)
    /\ IF Len(nodes) > 1
       THEN RatioIs(stats.density, 2 * Len(edges), Len(nodes) * (Len(nodes) - 1))
       ELSE stats.density.kind = "N/A"
    /\ IF Len(nodes) > 0
       THEN RatioIs(stats.averageDegree, 2 * Len(edges), Len(nodes))
       ELSE stats.averageDegree.kind = "N/A"

\* C3 amended: statistics are reported exactly when the node list and the
\* edge list are both non-empty; then nodeCount and edgeCount are the
\* cardinalities, density is 2*edgeCount/(nodeCount*(nodeCount-1)) when
\* nodeCount > 1 and "N/A" when nodeCount = 1, averageDegree is
\* 2*edgeCount/nodeCount, and no division by zero is performed.
C3_StatsWhenBothNonEmpty ==
  Built =>
    /\ stats.shown <=> (nodes # << >> /\ edges # << >>)
    /\ stats.shown =>
         /\ stats.nodeCount = Len(nodes)
         /\ stats.edgeCount = Len(edges)
         /\ IF Len(nodes) > 1
            THEN RatioIs(stats.density, 2 * Len(edges), Len(nodes) * (Len(nodes) - 1))
            ELSE stats.density.kind = "N/A"
         /\ RatioIs(stats.averageDegree, 2 * Len(edges), Len(nodes))
    /\ stats.density.kind # "ZeroDivisionError"
    /\ stats.averageDegree.kind # "ZeroDivisionError"

\* C3 witness: one node with a self-loop: statistics are shown, the density
\* is "N/A" and the average degree is 2*edgeCount.
C3_Witness ==
  /\ Built
  /\ stats.shown
  /\ stats.nodeCount = 1
  /\ stats.density.kind = "N/A"
  /\ RatioIs(stats.averageDegree, 2 * Len(edges), 1)

\* C4: every built edge has a width in [1, 5] (10..50 tenths): the clamp of
\* weight * multiplier when edge-weight sizing is on, the weight column
\* exists and the weight is present and parses, and exactly 2 otherwise.
C4_EdgeWidthClamped ==
  Built =>
    \A j \in DOMAIN edges :
      LET row == EdgeRows[edges[j].row]
          w == edges[j].width
      IN  /\ 10 <= w /\ w <= 50
          /\ IF /\ use_weight_edge
                /\ "weight" \in edges_df.columns
                /\ notna(row.weight)
                /\ PyFloat(row.weight).ok
             THEN LET x == PyFloat(row.weight).n * edge_weight_multiplier
                  IN  w = (IF x < 10 THEN 10 ELSE IF x > 50 THEN 50 ELSE x)
             ELSE w = 20

\* C4 witness: with edge-weight sizing on, an edge of negative weight is
\* built with width 1.
C4_Witness ==
  /\ Built
  /\ use_weight_edge
  /\ \E j \in DOMAIN edges :
       /\ notna(EdgeRows[edges[j].row].weight)
       /\ PyFloat(EdgeRows[edges[j].row].weight).ok
       /\ PyFloat(EdgeRows[edges[j].row].weight).n < 0
       /\ edges[j].width = 10

\* C5: every built node has size >= the configured base node size.
C5_NodeSizeAtLeastBase ==
  Built => \A j \in DOMAIN nodes : nodes[j].size >= base_node_size

Weighted(row) ==
  /\ "weight" \in nodes_df.columns
  /\ notna(row.weight)
  /\ PyFloat(row.weight).ok

\* C6: with weight-based sizing on, a node of present numeric weight w has
\* size base + w * multiplier, so sizes are non-decreasing in the weight; a
\* missing or non-numeric weight gives exactly the base size; with sizing
\* off or no weight column every node has exactly the base size.
C6_NodeSizeLinearInWeight ==
  Built =>
    /\ \A j \in DOMAIN nodes :
         LET row == NodeRows[nodes[j].row]
         IN  IF use_weight_size /\ Weighted(row)
             THEN nodes[j].size = base_node_size + PyFloat(row.weight).n * weight_multiplier
             ELSE nodes[j].size = base_node_size
    /\ use_weight_size =>
         \A j, k \in DOMAIN nodes :
           LET rj == NodeRows[nodes[j].row]
               rk == NodeRows[nodes[k].row]
           IN  (Weighted(rj) /\ Weighted(rk) /\ PyFloat(rj.weight).n <= PyFloat(rk.weight).n)
                 => nodes[j].size <= nodes[k].size

\* C6 witness: sizing is on with a multiplier above 1; a node of numeric
\* weight is larger than the base and a node of non-numeric weight has the
\* base size.
C6_Witness ==
  /\ Built
  /\ use_weight_size
  /\ weight_multiplier > 1
  /\ \E j, k \in DOMAIN nodes :
       /\ Weighted(NodeRows[nodes[j].row])
       /\ nodes[j].size > base_node_size
       /\ notna(NodeRows[nodes[k].row].weight)
       /\ ~PyFloat(NodeRows[nodes[k].row].weight).ok
       /\ nodes[k].size = base_node_size

\* index (from 0) of a module value among the distinct module values of
\* the whole node table, in order of first occurrence
FirstOccurrence(cell) ==
  LET u == unique(Column(nodes_df, "module"))
  IN  (CHOOSE i \in DOMAIN u : u[i] = cell) - 1

\* C7: with a module column, every built node's color is
\* palette[i mod 10], i the first-occurrence index of its row's module.
C7_NodeColorFromPalette ==
  (Built /\ HasModuleColumn) =>
    \A j \in DOMAIN nodes :
      nodes[j].color =
        color_palette[(FirstOccurrence(nodes_df.rows[nodes[j].row].module) % 10) + 1]

NodesFollowRows(rows) ==
  /\ BuiltNodeRows = {i \in DOMAIN rows : Survives(rows, i)}
  /\ \A j, k \in DOMAIN nodes : j < k => nodes[j].row < nodes[k].row
  /\ \A j \in DOMAIN nodes : nodes[j].id = PyStr(rows[nodes[j].row].id)

\* C8 as stated: one node per surviving row, in table order, no two nodes
\* with the same id, and as many nodes as ids and as lookup keys.
C8_OneNodePerRowUniqueIds ==
  Built =>
    /\ \A rows \in {NodeRows} : NodesFollowRows(rows)
    /\ \A j, k \in DOMAIN nodes : nodes[j].id = nodes[k].id => j = k
    /\ Len(nodes) = Cardinality(node_ids)
    /\ Len(nodes) = Cardinality(DOMAIN node_dict)

\* C8 amended: one node per surviving row, in table order; the id set and
\* the keys of the lookup are exactly the distinct ids of the built nodes;
\* the nodes are as many as the ids, and have pairwise different ids,
\* exactly when the surviving rows have pairwise different coerced ids.
C8_OneNodePerRow ==
  Built =>
    \A rows \in {NodeRows} :
      /\ NodesFollowRows(rows)
      /\ node_ids = BuiltIds
      /\ DOMAIN node_dict = BuiltIds
      /\ Cardinality(node_ids) <= Len(nodes)
      /\ (Len(nodes) = Cardinality(node_ids)) <=>
           \A i, r \in DOMAIN rows :
             (Survives(rows, i) /\ Survives(rows, r) /\ PyStr(rows[i].id) = PyStr(rows[r].id))
               => i = r

\* C8 witness: two surviving rows with the same id give two nodes and one id.
C8_Witness ==
  /\ Built
  /\ Len(nodes) = 2
  /\ Cardinality(node_ids) = 1
  /\ Cardinality(DOMAIN node_dict) = 1

\* C9: every render works on tables equal to what the two files hold at
\* that moment: once the script has run after the last change to the files,
\* the tables it worked on are what load_data reads from them.
C9_RenderReadsCurrentFiles ==
  rendered =>
    /\ cache.value = load_data(nodesFile, edgesFile)
    /\ loaded = load_data(nodesFile, edgesFile).ok

\* C10: with a module column every built edge has the color of every built
\* node whose id is the edge's source; without one every edge has the
\* default edge color.
C10_EdgeColorIsSourceNodeColor ==
  Built =>
    IF HasModuleColumn
    THEN \A e \in DOMAIN edges : \A j \in DOMAIN nodes :
           nodes[j].id = edges[e].source => edges[e].color = nodes[j].color
    ELSE \A e \in DOMAIN edges : edges[e].color = DEFAULT_EDGE_COLOR
====
